---- MODULE Spec2Model ----
(***************************************************************************)
(* The application state store of the Flick messenger client (store.ts)    *)
(* together with the part of the remote access layer (api.ts) its actions  *)
(* call.  The store is a single snapshot mutated by synchronous `set`      *)
(* calls; every asynchronous action is split at its `await`s, so that the  *)
(* continuations of concurrent calls interleave freely.                    *)
(*                                                                         *)
(* Five specifications share the state: Spec has the messaging actions     *)
(* of the store (sendMessage, setActiveChat, createChat) with login and    *)
(* logout; SessionSpec has its session actions (login, signup,             *)
(* updateUserProfile, logout); ApiSpec calls the functions of the access   *)
(* layer on their own, with every answer the network can give;             *)
(* MessagingSpec has sendMessage and setActiveChat with every pending send *)
(* answered in the end; ListedSpec is Spec with setActiveChat called only  *)
(* for chats of the chat list.                                             *)
(*                                                                         *)
(* Identifiers are tuples: <<"chat", n>> is a chat id assigned by the      *)
(* server, <<"local", t>> is `local_${Date.now()}`, <<"msg", i>> the       *)
(* temporary id of the i-th sendMessage call (`msg_${Date.now()}_${rnd}`,  *)
(* taken to be fresh for every call), <<"srv", i>> the id the server       *)
(* assigns to the message of the i-th call and <<"local_msg", t>> is       *)
(* `local_msg_${Date.now()}`.  createdAt and readBy (always []) are left   *)
(* out of the message record.  Its field `call` is not a field of the      *)
(* program: it names the sendMessage call a message stems from, which the  *)
(* id does not (two confirmed messages of a local chat built in the same   *)
(* millisecond have the same id).  No action reads it.                     *)
(***************************************************************************)
EXTENDS Integers, Sequences, FiniteSets, TLC

VARIABLES
    currentUser,       \* User | null
    authToken,         \* localStorage 'authToken'
    chats,             \* Chat[]
    activeChatId,      \* string | null
    messages,          \* Record<string, Message[]>, a function on the keys present
    isSettingsOpen,
    serverMsgs,        \* the remote service: the messages it has stored, per chat
    sendCalls,         \* the sendMessage calls made so far and where each stands
                       \* (lenBefore: the length of the chat's list at the call,
                       \* invokedAt: the clock at a call for a local chat)
    activeCalls,       \* the setActiveChat calls (had: the confirmed messages of
                       \* the chat's list at the call, kept until the refresh)
    createCalls,       \* the createChat calls
    loginCalls,        \* the login calls
    clock,             \* the last value Date.now() returned where an id was built
    signupCalls,       \* the signup calls
    profileCalls,      \* the updateUserProfile calls
    serverProfile,     \* the remote service: the profile it has stored for the account
    apiCall            \* the last call made to the remote access layer directly:
                       \* what it was given, what it asked the network and what
                       \* it returned

vars == <<currentUser, authToken, chats, activeChatId, messages, isSettingsOpen,
          serverMsgs, sendCalls, activeCalls, createCalls, loginCalls, clock,
          signupCalls, profileCalls, serverProfile, apiCall>>

storeVars == <<currentUser, authToken, chats, activeChatId, messages, isSettingsOpen>>

NULL == <<>>

\* How many asynchronous store actions are invoked in one run.
MaxCalls == 3

\* The values Date.now() takes where an id is built from it: the millisecond
\* of the last such reading (clock) or a later one, counted 1, 2, ...
Stamps == 1..MaxCalls
Now(t) == t \in {clock, clock + 1} \ {0}

LocalChatId(t) == <<"local", t>>
ServerChatIds == {<<"chat", 1>>, <<"chat", 2>>}
\* The chat ids the UI passes to sendMessage and setActiveChat.
ChatIds == {<<"chat", 1>>, LocalChatId(1)}

\* IsLocal taking no chat for a local one.
IsLocal_Never(chatId) == FALSE

\* chatId.startsWith('local_')
IsLocal(chatId) == chatId[1] = "local"

\* What the UI sends: content, type, attachments.
Payloads ==
    { [content |-> "hi", type |-> "TEXT",  attachments |-> <<>>],
      [content |-> "",   type |-> "IMAGE", attachments |-> <<"a1">>] }

\* The outcome of one HTTP request.
Outcomes == {"ok", "fail"}

NumCalls == Len(sendCalls) + Len(activeCalls) + Len(createCalls) + Len(loginCalls)
               + Len(signupCalls) + Len(profileCalls)

\* state.messages[chatId] || []
MessagesOf(ms, chatId) == IF chatId \in DOMAIN ms THEN ms[chatId] ELSE <<>>

\* { ...state.messages, [chatId]: list }
WithMessages(ms, chatId, list) ==
    [c \in DOMAIN ms \cup {chatId} |-> IF c = chatId THEN list ELSE ms[c]]

\* The ids of the chats in a chat list.
ChatIdsIn(cs) == {cs[p].id : p \in 1..Len(cs)}

\* state.chats.map(c => c.id === chatId ? { ...c, lastMessage: m } : c)
WithLastMessage(cs, chatId, m) ==
    [p \in 1..Len(cs) |-> IF cs[p].id = chatId THEN [cs[p] EXCEPT !.lastMessage = m]
                                               ELSE cs[p]]

Init ==
    /\ currentUser = NULL
    /\ authToken = NULL
    /\ chats = <<>>
    /\ activeChatId = NULL
    /\ messages = <<>>
    /\ isSettingsOpen = FALSE
    /\ serverMsgs = [c \in ServerChatIds |-> <<>>]
    /\ sendCalls = <<>>
    /\ activeCalls = <<>>
    /\ createCalls = <<>>
    /\ loginCalls = <<>>
    /\ clock = 0
    /\ signupCalls = <<>>
    /\ profileCalls = <<>>
    /\ serverProfile = [id |-> "u1", username |-> "alice", name |-> "", bio |-> ""]
    /\ apiCall = [op |-> "none"]

\* The answer to one HTTP request: whether it succeeded (a 2xx status with a
\* JSON body) and the body.  A failed request has no body.
Failure == [ok |-> FALSE, body |-> NULL]
Answer(body) == [ok |-> TRUE, body |-> body]

\* What a call of the access layer hands back: its value or the error it
\* threw, and the requests it made, in order (asked is no value of the
\* program: it records the calls of fetch).
Returned(value, asked) == [ok |-> TRUE, value |-> value, error |-> "", asked |-> asked]
Thrown(error, asked) == [ok |-> FALSE, value |-> NULL, error |-> error, asked |-> asked]

\* A JSON array as a body, and Array.isArray of a body (an object or null
\* otherwise).
ArrayOf(items) == [array |-> items]
IsArray(body) == body # NULL /\ "array" \in DOMAIN body

-----------------------------------------------------------------------------
(* sendMessage *)

\* NewMessage with the type dropped: every optimistic message is a TEXT.
NewMessage_TextOnly(tempId, chatId, p) ==
    [id |-> tempId, chatId |-> chatId,
     senderId |-> IF currentUser # NULL THEN currentUser.id ELSE "me",
     content |-> p.content, type |-> "TEXT", attachments |-> p.attachments,
     call |-> tempId[2]]

\* The optimistic message built by sendMessage.
NewMessage(tempId, chatId, p) ==
    [id |-> tempId, chatId |-> chatId,
     senderId |-> IF currentUser # NULL THEN currentUser.id ELSE "me",
     content |-> p.content, type |-> p.type, attachments |-> p.attachments,
     call |-> tempId[2]]

\* OptimisticAppend putting the new message first: [newMessage, ...chatMessages].
OptimisticAppend_Front(ms, chatId, m) ==
    WithMessages(ms, chatId, <<m>> \o MessagesOf(ms, chatId))

\* [...chatMessages, newMessage] under the chat's key.
OptimisticAppend(ms, chatId, m) ==
    WithMessages(ms, chatId, Append(MessagesOf(ms, chatId), m))

SendMessage(chatId, p) ==
    /\ NumCalls < MaxCalls
    /\ LET i == Len(sendCalls) + 1
           tempId == <<"msg", i>>
           newMessage == NewMessage(tempId, chatId, p)
       IN /\ messages' = OptimisticAppend(messages, chatId, newMessage)
          /\ chats' = WithLastMessage(chats, chatId, newMessage)
          /\ sendCalls' = Append(sendCalls,
                [chatId |-> chatId, content |-> p.content, type |-> p.type,
                 attachments |-> p.attachments, tempId |-> tempId,
                 lenBefore |-> Len(MessagesOf(messages, chatId)),
                 invokedAt |-> IF IsLocal(chatId) THEN clock ELSE 0,
                 pc |-> "awaiting", savedMessage |-> NULL])
    /\ UNCHANGED <<currentUser, authToken, activeChatId, isSettingsOpen,
                   serverMsgs, activeCalls, createCalls, loginCalls,
                   clock,
                   profileCalls, signupCalls, apiCall, serverProfile>>

\* The message POST /message answers with: the service stores what was posted
\* under an id of its own and names the bearer of the token as its sender.
ServerReply(i, chatId, p) ==
    [id |-> <<"srv", i>>, chat_id |-> chatId,
     sender_id |-> IF authToken = NULL THEN "" ELSE authToken[2],
     content |-> p.content, type |-> p.type, attachments |-> p.attachments,
     call |-> i]

\* mapMessage: a missing ("" is falsy) sender becomes 'unknown', a missing type TEXT.
MapMessage(data) ==
    [id |-> IF data.id # NULL THEN data.id ELSE <<"random">>,
     chatId |-> data.chat_id,
     senderId |-> IF data.sender_id # "" THEN data.sender_id ELSE "unknown",
     content |-> data.content,
     type |-> IF data.type # "" THEN data.type ELSE "TEXT",
     attachments |-> data.attachments,
     call |-> data.call]

\* api.messages.send: a local chat is answered locally and never fails, any
\* other chat is posted to the service and a failed request throws.
MessagesSend(i, chatId, p, outcome, t) ==
    IF IsLocal(chatId)
    THEN Returned([id |-> <<"local_msg", t>>, chatId |-> chatId, senderId |-> "me",
                   content |-> p.content, type |-> p.type,
                   attachments |-> p.attachments, call |-> i], <<>>)
    ELSE IF outcome = "ok"
         THEN Returned(MapMessage(ServerReply(i, chatId, p)), <<"/message">>)
         ELSE Thrown("request", <<"/message">>)

\* ReplaceTemp matching on the content of a pending message instead of its id.
ReplaceTemp_ByContent(list, tempId, savedMessage) ==
    [p \in 1..Len(list) |->
        IF list[p].id[1] = "msg" /\ list[p].content = savedMessage.content
        THEN savedMessage ELSE list[p]]

\* chatMessages.map(m => m.id === tempId ? savedMessage : m)
ReplaceTemp(list, tempId, savedMessage) ==
    [p \in 1..Len(list) |-> IF list[p].id = tempId THEN savedMessage ELSE list[p]]

\* RemoveTemp leaving the failed message in the list.
RemoveTemp_Keeps(list, tempId) == list

\* RemoveTemp with the test inverted: only the failed message is kept.
RemoveTemp_Inverted(list, tempId) ==
    LET Keep(m) == m.id = tempId IN SelectSeq(list, Keep)

\* chatMessages.filter(m => m.id !== tempId)
RemoveTemp(list, tempId) ==
    LET Keep(m) == m.id # tempId IN SelectSeq(list, Keep)

\* ChatsAfterSend taking the failed message out of the chat's lastMessage.
ChatsAfterSend_RollsBack(cs, chatId, r) ==
    IF r.ok THEN WithLastMessage(cs, chatId, r.value)
            ELSE WithLastMessage(cs, chatId, NULL)

\* What the continuation of sendMessage makes of chats: the confirmed message
\* becomes the chat's lastMessage; the catch branch sets messages only.
ChatsAfterSend(cs, chatId, r) ==
    IF r.ok THEN WithLastMessage(cs, chatId, r.value) ELSE cs

\* The continuation of sendMessage after `await api.messages.send`.  A local
\* chat answers after setTimeout(300): in a later millisecond than the call.
SendComplete(i, outcome, t) ==
    /\ i \in 1..Len(sendCalls)
    /\ sendCalls[i].pc = "awaiting"
    /\ IF IsLocal(sendCalls[i].chatId)
       THEN Now(t) /\ t > sendCalls[i].invokedAt /\ clock' = t
       ELSE t = 1 /\ clock' = clock
    /\ LET call == sendCalls[i]
           chatId == call.chatId
           r == MessagesSend(i, chatId, call, outcome, t)
           chatMessages == MessagesOf(messages, chatId)
       IN IF r.ok
          THEN /\ messages' = WithMessages(messages, chatId,
                                  ReplaceTemp(chatMessages, call.tempId, r.value))
               /\ chats' = ChatsAfterSend(chats, chatId, r)
               /\ serverMsgs' = IF IsLocal(chatId) THEN serverMsgs
                                ELSE [serverMsgs EXCEPT ![chatId] =
                                         Append(@, ServerReply(i, chatId, call))]
               /\ sendCalls' = [sendCalls EXCEPT ![i].pc = "resolved",
                                                 ![i].savedMessage = r.value]
          ELSE /\ messages' = WithMessages(messages, chatId,
                                  RemoveTemp(chatMessages, call.tempId))
               /\ chats' = ChatsAfterSend(chats, chatId, r)
               /\ sendCalls' = [sendCalls EXCEPT ![i].pc = "rejected"]
               /\ UNCHANGED serverMsgs
    /\ UNCHANGED <<currentUser, authToken, activeChatId, isSettingsOpen,
                   activeCalls, createCalls, loginCalls,
                   profileCalls, signupCalls, apiCall, serverProfile>>

-----------------------------------------------------------------------------
(* setActiveChat *)

\* MessagesList letting the failure of the request through.
MessagesList_Throws(chatId, res) ==
    IF IsLocal(chatId) THEN Returned(<<>>, <<>>)
    ELSE IF ~res.ok THEN Thrown("request", <<"/message">>)
    ELSE IF ~IsArray(res.body) THEN Returned(<<>>, <<"/message">>)
    ELSE Returned([p \in 1..Len(res.body.array) |-> MapMessage(res.body.array[p])],
                  <<"/message">>)

\* api.messages.list: nothing for a local chat, the mapped listing of the
\* service otherwise, and the empty list (never an exception) when the
\* request fails or its body is no array.
MessagesList(chatId, res) ==
    IF IsLocal(chatId) THEN Returned(<<>>, <<>>)
    ELSE IF ~res.ok THEN Returned(<<>>, <<"/message">>)
    ELSE IF ~IsArray(res.body) THEN Returned(<<>>, <<"/message">>)
    ELSE Returned([p \in 1..Len(res.body.array) |-> MapMessage(res.body.array[p])],
                  <<"/message">>)

\* How the service answers GET /message?chat_id: with what it has stored for
\* the chat, or not at all.
MessagesReply(chatId, outcome) ==
    IF outcome = "ok" /\ ~IsLocal(chatId) THEN Answer(ArrayOf(serverMsgs[chatId]))
                                          ELSE Failure

\* The messages of a list that are not optimistic ones: those whose id is
\* not a temporary id.
ConfirmedIn(list) == {list[p] : p \in {q \in 1..Len(list) : list[q].id[1] # "msg"}}

\* The synchronous part: select the chat and start the fetch.  The call
\* remembers in had, until its refresh is applied, the confirmed messages the
\* chat's list has when it is made.
SetActiveChat(chatId) ==
    /\ NumCalls < MaxCalls
    /\ activeChatId' = chatId
    /\ activeCalls' = Append(activeCalls,
                         [chatId |-> chatId, pc |-> "fetching", outcome |-> "none",
                          result |-> NULL, had |-> ConfirmedIn(MessagesOf(messages, chatId))])
    /\ UNCHANGED <<currentUser, authToken, chats, messages, isSettingsOpen,
                   serverMsgs, sendCalls, createCalls, loginCalls,
                   clock,
                   profileCalls, signupCalls, apiCall, serverProfile>>

\* api.messages.list settles: the service is read now, the store later.
ActiveFetched(k, outcome) ==
    /\ k \in 1..Len(activeCalls)
    /\ activeCalls[k].pc = "fetching"
    /\ activeCalls' = [activeCalls EXCEPT
                          ![k].pc = "fetched",
                          ![k].outcome = IF IsLocal(activeCalls[k].chatId) THEN "none"
                                                                          ELSE outcome,
                          ![k].result = MessagesList(activeCalls[k].chatId,
                                           MessagesReply(activeCalls[k].chatId, outcome))]
    /\ UNCHANGED <<storeVars, serverMsgs, sendCalls, createCalls, loginCalls,
                   clock,
                   profileCalls, signupCalls, apiCall, serverProfile>>

\* The continuation of setActiveChat: install the list, or keep the cache when
\* the fetch threw.
ActiveApply(k) ==
    /\ k \in 1..Len(activeCalls)
    /\ activeCalls[k].pc = "fetched"
    /\ LET call == activeCalls[k]
       IN messages' = IF call.result.ok
                      THEN WithMessages(messages, call.chatId, call.result.value)
                      ELSE messages
    /\ activeCalls' = [activeCalls EXCEPT ![k].pc = "done", ![k].result = NULL,
                                           ![k].had = {}]
    /\ UNCHANGED <<currentUser, authToken, chats, activeChatId, isSettingsOpen,
                   serverMsgs, sendCalls, createCalls, loginCalls,
                   clock,
                   profileCalls, signupCalls, apiCall, serverProfile>>

-----------------------------------------------------------------------------
(* createChat *)

\* MOCK_USERS: the built-in demo users.
MOCK_USERS ==
    << [id |-> "u2", friendCode |-> "12849"],
       [id |-> "u3", friendCode |-> "88392"],
       [id |-> "u4", friendCode |-> "33421"] >>

\* The friend codes the UI submits: a demo user's and one nobody has.
FriendCodes == {"12849", "40404"}

\* The chat the service answers a creation with: it may be listed already
\* (the chat there is with that friend) or not.
CreatedChatId == <<"chat", 2>>

\* A chat as the service describes it.
ServerChat(id) ==
    [id |-> id, members |-> <<"u1", "u9">>, last_message |-> NULL, is_group |-> FALSE]

\* mapChat
MapChat(data) ==
    [id |-> IF data.id # NULL THEN data.id ELSE <<"random">>,
     participants |-> data.members,
     lastMessage |-> IF data.last_message # NULL THEN MapMessage(data.last_message)
                                                ELSE NULL,
     isGroup |-> data.is_group]

\* MockFriend without the comparison: any code finds the first demo user.
MockFriend_Any(friendCode) == MOCK_USERS[1]

\* MOCK_USERS.find(u => u.friendCode === friendCode)
MockFriend(friendCode) ==
    LET hits == {p \in 1..Len(MOCK_USERS) : MOCK_USERS[p].friendCode = friendCode}
    IN IF hits = {} THEN NULL
       ELSE MOCK_USERS[CHOOSE p \in hits : \A q \in hits : p <= q]

\* api.chats.create: the service's chat, else a local chat with a demo user,
\* else the error of the request.  stored is the user under localStorage
\* 'currentUser' (null when there is none): the first participant of a local
\* chat is that user, or the default { id: 'me' }.
ChatsCreate(friendCode, res, stored, t) ==
    IF res.ok
    THEN Returned(MapChat(res.body), <<"/chat">>)
    ELSE LET mockFriend == MockFriend(friendCode)
             current == IF stored # NULL THEN stored ELSE [id |-> "me", username |-> "Me"]
         IN IF mockFriend # NULL
            THEN Returned([id |-> LocalChatId(t),
                           participants |-> <<current.id, mockFriend.id>>,
                           lastMessage |-> NULL, isGroup |-> FALSE], <<"/chat">>)
            ELSE Thrown("request", <<"/chat">>)

\* createChat up to its await: nothing is applied optimistically.
CreateChat(friendCode) ==
    /\ NumCalls < MaxCalls
    /\ createCalls' = Append(createCalls,
                         [friendCode |-> friendCode, pc |-> "awaiting", outcome |-> "none",
                          newChat |-> NULL, ret |-> "none"])
    /\ UNCHANGED <<storeVars, serverMsgs, sendCalls, activeCalls, loginCalls,
                   clock,
                   profileCalls, signupCalls, apiCall, serverProfile>>

\* Prepend the other way round: [...state.chats, newChat].
Prepend_Back(newChat, cs) == cs \o <<newChat>>

\* [newChat, ...state.chats]
Prepend(newChat, cs) == <<newChat>> \o cs

\* The continuation of createChat: prepend and select the chat and return
\* true, or catch the error and return false (ret; nothing is rethrown).
\* Nothing in the application writes localStorage 'currentUser'.
CreateComplete(k, outcome, id, t) ==
    /\ k \in 1..Len(createCalls)
    /\ createCalls[k].pc = "awaiting"
    /\ IF outcome = "fail" /\ MockFriend(createCalls[k].friendCode) # NULL
       THEN Now(t) /\ clock' = t
       ELSE t = 1 /\ clock' = clock
    /\ LET r == ChatsCreate(createCalls[k].friendCode,
                            IF outcome = "ok" THEN Answer(ServerChat(id)) ELSE Failure,
                            NULL, t)
       IN IF r.ok
          THEN /\ chats' = Prepend(r.value, chats)
               /\ activeChatId' = r.value.id
               /\ createCalls' = [createCalls EXCEPT ![k].pc = "done",
                                                     ![k].outcome = outcome,
                                                     ![k].newChat = r.value,
                                                     ![k].ret = "true"]
          ELSE /\ createCalls' = [createCalls EXCEPT ![k].pc = "done",
                                                     ![k].outcome = outcome,
                                                     ![k].ret = "false"]
               /\ UNCHANGED <<chats, activeChatId>>
    /\ UNCHANGED <<currentUser, authToken, messages, isSettingsOpen, serverMsgs, sendCalls, activeCalls, loginCalls,
                   profileCalls, signupCalls, apiCall, serverProfile>>

-----------------------------------------------------------------------------
(* login, logout and the settings flags *)

\* The account as the service describes it.
ServerUser == [id |-> "u1", username |-> "alice", name |-> "", bio |-> ""]

\* The token the service issues for the account.
ServerToken == <<"token", ServerUser.id>>

\* mapUser, for the fields id, username and bio: no payload gives the
\* placeholder user, a missing ("" is falsy) id 'unknown', a missing username
\* the name or 'User'.
MapUser(data) ==
    IF data = NULL
    THEN [id |-> "unknown", username |-> "Unknown User"]
    ELSE [id |-> IF data.id # "" THEN data.id ELSE "unknown",
          username |-> IF data.username # "" THEN data.username
                       ELSE IF data.name # "" THEN data.name ELSE "User",
          bio |-> data.bio]

\* FetchUserProfile asking /auth/me only.
FetchUserProfile_AuthMeOnly(authMe, me) ==
    IF authMe.ok THEN [value |-> authMe.body, asked |-> <<"/auth/me">>]
    ELSE [value |-> NULL, asked |-> <<"/auth/me">>]

\* fetchUserProfile: the body of /auth/me when that request is answered, else
\* the body of /me when that one is, else null.
FetchUserProfile(authMe, me) ==
    IF authMe.ok THEN [value |-> authMe.body, asked |-> <<"/auth/me">>]
    ELSE IF me.ok THEN [value |-> me.body, asked |-> <<"/auth/me", "/me">>]
         ELSE [value |-> NULL, asked |-> <<"/auth/me", "/me">>]

\* The body shared by api.auth.login and api.auth.signup: post the
\* credentials; take the profile from the answer, or, when it has none but
\* has a token, from fetchUserProfile; throw when there is no profile.
Authenticate(endpoint, noProfile, res, authMe, me) ==
    IF ~res.ok THEN Thrown("request", <<endpoint>>)
    ELSE IF res.body = NULL THEN Thrown("TypeError", <<endpoint>>)
    ELSE LET token == res.body.authToken
             followUp == res.body.user = NULL /\ token # NULL
             profile == FetchUserProfile(authMe, me)
             userData == IF followUp THEN profile.value ELSE res.body.user
             asked == IF followUp THEN <<endpoint>> \o profile.asked ELSE <<endpoint>>
         IN IF userData = NULL
            THEN Thrown(noProfile, asked)
            ELSE Returned([authToken |-> token, user |-> MapUser(userData)], asked)

\* api.auth.login
AuthLogin(res, authMe, me) ==
    Authenticate("/auth/login", "Login successful, but user profile could not be loaded.",
                 res, authMe, me)

\* api.auth.signup
AuthSignup(res, authMe, me) ==
    Authenticate("/auth/signup", "Signup successful, but profile creation failed.",
                 res, authMe, me)

\* How the service answers the credentials of the account: with the token and
\* the profile, or not at all.
AuthReply(outcome) ==
    IF outcome = "ok" THEN Answer([authToken |-> ServerToken, user |-> ServerUser])
                      ELSE Failure

\* What GET /chat may list for the account.
ChatListings ==
    { ArrayOf(<<ServerChat(<<"chat", 1>>)>>),
      ArrayOf(<<ServerChat(<<"chat", 1>>), ServerChat(<<"chat", 2>>)>>) }

\* ChatsList letting the failure of the request through.
ChatsList_Throws(res) ==
    IF ~res.ok THEN Thrown("request", <<"/chat">>)
    ELSE IF ~IsArray(res.body) THEN Returned(<<>>, <<"/chat">>)
    ELSE Returned([p \in 1..Len(res.body.array) |-> MapChat(res.body.array[p])],
                  <<"/chat">>)

\* api.chats.list: the mapped listing, or the empty list when the request
\* fails or its body is no array.
ChatsList(res) ==
    IF ~res.ok THEN Returned(<<>>, <<"/chat">>)
    ELSE IF ~IsArray(res.body) THEN Returned(<<>>, <<"/chat">>)
    ELSE Returned([p \in 1..Len(res.body.array) |-> MapChat(res.body.array[p])],
                  <<"/chat">>)

Login ==
    /\ NumCalls < MaxCalls
    /\ loginCalls' = Append(loginCalls, [pc |-> "auth", listing |-> "none"])
    /\ UNCHANGED <<storeVars, serverMsgs, sendCalls, activeCalls, createCalls,
                   clock,
                   profileCalls, signupCalls, apiCall, serverProfile>>

\* After `await api.auth.login`: keep the token and the user, or rethrow.
LoginAuthenticated(k, outcome) ==
    /\ k \in 1..Len(loginCalls)
    /\ loginCalls[k].pc = "auth"
    /\ LET r == AuthLogin(AuthReply(outcome), Failure, Failure)
       IN IF r.ok
          THEN /\ authToken' = r.value.authToken
               /\ currentUser' = r.value.user
               /\ loginCalls' = [loginCalls EXCEPT ![k].pc = "chats"]
          ELSE /\ loginCalls' = [loginCalls EXCEPT ![k].pc = "threw"]
               /\ UNCHANGED <<authToken, currentUser>>
    /\ UNCHANGED <<chats, activeChatId, messages, isSettingsOpen, serverMsgs, sendCalls, activeCalls, createCalls,
                   clock,
                   profileCalls, signupCalls, apiCall, serverProfile>>

\* After `await api.chats.list`: install the chats.
LoginChats(k, outcome, listing) ==
    /\ k \in 1..Len(loginCalls)
    /\ loginCalls[k].pc = "chats"
    /\ LET r == ChatsList(IF outcome = "ok" THEN Answer(listing) ELSE Failure)
       IN chats' = IF r.ok THEN r.value ELSE chats
    /\ loginCalls' = [loginCalls EXCEPT ![k].pc = "done", ![k].listing = outcome]
    /\ UNCHANGED <<currentUser, authToken, activeChatId, messages, isSettingsOpen,
                   serverMsgs, sendCalls, activeCalls, createCalls,
                   clock,
                   profileCalls, signupCalls, apiCall, serverProfile>>

\* logout forgetting the chat list.
Logout_KeepsChats ==
    /\ authToken' = NULL
    /\ currentUser' = NULL
    /\ activeChatId' = NULL
    /\ isSettingsOpen' = FALSE
    /\ UNCHANGED <<chats, messages, serverMsgs, sendCalls, activeCalls, createCalls,
                   loginCalls,
                   clock,
                   profileCalls, signupCalls, apiCall, serverProfile>>

Logout ==
    /\ authToken' = NULL
    /\ currentUser' = NULL
    /\ activeChatId' = NULL
    /\ chats' = <<>>
    /\ isSettingsOpen' = FALSE
    /\ UNCHANGED <<messages, serverMsgs, sendCalls, activeCalls,
                   createCalls, loginCalls,
                   clock,
                   profileCalls, signupCalls, apiCall, serverProfile>>

SetSettingsOpen(isOpen) ==
    /\ isSettingsOpen' = isOpen
    /\ UNCHANGED <<currentUser, authToken, chats, activeChatId, messages,
                   serverMsgs, sendCalls, activeCalls, createCalls,
                   loginCalls,
                   clock,
                   profileCalls, signupCalls, apiCall, serverProfile>>

-----------------------------------------------------------------------------
(* signup and updateUserProfile *)

Signup ==
    /\ NumCalls < MaxCalls
    /\ signupCalls' = Append(signupCalls, [pc |-> "auth"])
    /\ UNCHANGED <<storeVars, serverMsgs, sendCalls, activeCalls, createCalls, loginCalls,
                   clock, profileCalls, apiCall, serverProfile>>

\* After `await api.auth.signup`: keep the token and the user, or rethrow.
\* No chat list is asked for.
SignupComplete(k, outcome) ==
    /\ k \in 1..Len(signupCalls)
    /\ signupCalls[k].pc = "auth"
    /\ LET r == AuthSignup(AuthReply(outcome), Failure, Failure)
       IN IF r.ok
          THEN /\ authToken' = r.value.authToken
               /\ currentUser' = r.value.user
               /\ signupCalls' = [signupCalls EXCEPT ![k].pc = "done"]
          ELSE /\ signupCalls' = [signupCalls EXCEPT ![k].pc = "threw"]
               /\ UNCHANGED <<authToken, currentUser>>
    /\ UNCHANGED <<chats, activeChatId, messages, isSettingsOpen, serverMsgs, sendCalls,
                   activeCalls, createCalls, loginCalls, clock, profileCalls, apiCall,
                   serverProfile>>

\* The partial users the settings screen submits.
Updates == { [username |-> "bob"], [bio |-> "hey"] }

\* Merge the wrong way round: { ...updates, ...user }.
Merge_UserWins(user, updates) ==
    [f \in DOMAIN user \cup DOMAIN updates |->
        IF f \in DOMAIN user THEN user[f] ELSE updates[f]]

\* { ...user, ...updates }
Merge(user, updates) ==
    [f \in DOMAIN user \cup DOMAIN updates |->
        IF f \in DOMAIN updates THEN updates[f] ELSE user[f]]

\* UsersUpdate without the second attempt: a failed first attempt throws.
UsersUpdate_NoFallback(userId, data, direct, own) ==
    IF direct.ok /\ direct.body # NULL
    THEN Returned(MapUser(direct.body), <<"/user">>)
    ELSE Thrown("Failed to save profile changes.", <<"/user">>)

\* api.users.update: PATCH the user's own resource unless the id is empty or
\* 'unknown'; when that gave nothing, PATCH /auth/me, and throw when that
\* request fails.
UsersUpdate(userId, data, direct, own) ==
    LET tryDirect == userId # "" /\ userId # "unknown"
        updatedData == IF tryDirect /\ direct.ok THEN direct.body ELSE NULL
        asked == IF tryDirect THEN <<"/user">> ELSE <<>>
    IN IF updatedData # NULL THEN Returned(MapUser(updatedData), asked)
       ELSE IF own.ok THEN Returned(MapUser(own.body), asked \o <<"/auth/me">>)
            ELSE Thrown("Failed to save profile changes.", asked \o <<"/auth/me">>)

\* updateUserProfile up to its await: without a user, return; with one, keep
\* a copy and merge the updates into the user.
UpdateUserProfile(updates) ==
    /\ NumCalls < MaxCalls
    /\ IF currentUser = NULL
       THEN /\ profileCalls' = Append(profileCalls,
                   [updates |-> updates, pc |-> "returned", userId |-> "",
                    previousUser |-> NULL, merged |-> NULL, updatedUser |-> NULL])
            /\ UNCHANGED currentUser
       ELSE /\ profileCalls' = Append(profileCalls,
                   [updates |-> updates, pc |-> "awaiting", userId |-> currentUser.id,
                    previousUser |-> currentUser, merged |-> Merge(currentUser, updates),
                    updatedUser |-> NULL])
            /\ currentUser' = Merge(currentUser, updates)
    /\ UNCHANGED <<authToken, chats, activeChatId, messages, isSettingsOpen, serverMsgs,
                   sendCalls, activeCalls, createCalls, loginCalls, clock, signupCalls,
                   apiCall, serverProfile>>

\* How the service answers a PATCH of the profile: with the profile it then
\* has stored, or not at all.
PatchReply(outcome, data) ==
    IF outcome = "ok" THEN Answer(Merge(serverProfile, data)) ELSE Failure

\* The continuation of updateUserProfile: install the user the service
\* returned, or put the copy back and rethrow.
UpdateComplete(k, direct, own) ==
    /\ k \in 1..Len(profileCalls)
    /\ profileCalls[k].pc = "awaiting"
    /\ LET call == profileCalls[k]
           r == UsersUpdate(call.userId, call.updates,
                            PatchReply(direct, call.updates), PatchReply(own, call.updates))
       IN IF r.ok
          THEN /\ currentUser' = r.value
               /\ serverProfile' = Merge(serverProfile, call.updates)
               /\ profileCalls' = [profileCalls EXCEPT ![k].pc = "done",
                                                       ![k].updatedUser = r.value]
          ELSE /\ currentUser' = call.previousUser
               /\ profileCalls' = [profileCalls EXCEPT ![k].pc = "threw"]
               /\ UNCHANGED serverProfile
    /\ UNCHANGED <<authToken, chats, activeChatId, messages, isSettingsOpen, serverMsgs,
                   sendCalls, activeCalls, createCalls, loginCalls, clock, signupCalls,
                   apiCall>>

-----------------------------------------------------------------------------
(* The remote access layer called on its own: each action makes one call   *)
(* with answers of the network chosen freely and keeps what it was given    *)
(* and what it returned.                                                    *)

\* A profile as /me may describe it: no username, only a name.
OtherProfile == [id |-> "u1", username |-> "", name |-> "Al", bio |-> ""]

\* The answers to the credentials: none, an empty body, and a body with or
\* without a token and with or without a profile.
AuthAnswers ==
    {Failure, Answer(NULL)} \cup
    {Answer([authToken |-> tk, user |-> u]) : tk \in {NULL, ServerToken},
                                               u \in {NULL, ServerUser}}

\* The answers to a request for, or an update of, a profile.
ProfileAnswers == {Failure, Answer(NULL), Answer(ServerUser), Answer(OtherProfile)}

CallLogin(res, authMe, me) ==
    /\ apiCall' = [op |-> "login", res |-> res, authMe |-> authMe, me |-> me,
                   out |-> AuthLogin(res, authMe, me)]
    /\ UNCHANGED <<storeVars, serverMsgs, sendCalls, activeCalls, createCalls, loginCalls,
                   clock, signupCalls, profileCalls, serverProfile>>

CallSignup(res, authMe, me) ==
    /\ apiCall' = [op |-> "signup", res |-> res, authMe |-> authMe, me |-> me,
                   out |-> AuthSignup(res, authMe, me)]
    /\ UNCHANGED <<storeVars, serverMsgs, sendCalls, activeCalls, createCalls, loginCalls,
                   clock, signupCalls, profileCalls, serverProfile>>

\* The user ids api.users.update is called with.
UserIds == {"u1", "", "unknown"}

CallUsersUpdate(userId, data, direct, own) ==
    /\ apiCall' = [op |-> "update", userId |-> userId, data |-> data,
                   direct |-> direct, own |-> own,
                   out |-> UsersUpdate(userId, data, direct, own)]
    /\ UNCHANGED <<storeVars, serverMsgs, sendCalls, activeCalls, createCalls, loginCalls,
                   clock, signupCalls, profileCalls, serverProfile>>

\* A message as the service lists it.
ServerMessage(n, chatId) ==
    [id |-> <<"srv", n>>, chat_id |-> chatId, sender_id |-> "u1", content |-> "hi",
     type |-> "", attachments |-> <<>>, call |-> n]

\* The answers to a listing of chats, and of the messages of a chat: none, a
\* body that is no array, and arrays.
ChatListAnswers ==
    {Failure, Answer(NULL), Answer([message |-> "x"]), Answer(ArrayOf(<<>>))}
        \cup {Answer(l) : l \in ChatListings}
MessageListKinds == {"fail", "null", "object", "none", "one", "two"}
MessageListAnswer(kind, chatId) ==
    CASE kind = "fail" -> Failure
      [] kind = "null" -> Answer(NULL)
      [] kind = "object" -> Answer([message |-> "x"])
      [] kind = "none" -> Answer(ArrayOf(<<>>))
      [] kind = "one" -> Answer(ArrayOf(<<ServerMessage(1, chatId)>>))
      [] kind = "two" -> Answer(ArrayOf(<<ServerMessage(2, chatId),
                                          ServerMessage(1, chatId)>>))

CallChatsList(res) ==
    /\ apiCall' = [op |-> "listChats", res |-> res, out |-> ChatsList(res)]
    /\ UNCHANGED <<storeVars, serverMsgs, sendCalls, activeCalls, createCalls, loginCalls,
                   clock, signupCalls, profileCalls, serverProfile>>

CallMessagesList(chatId, kind) ==
    /\ LET res == MessageListAnswer(kind, chatId)
       IN apiCall' = [op |-> "listMessages", chatId |-> chatId, res |-> res,
                      out |-> MessagesList(chatId, res)]
    /\ UNCHANGED <<storeVars, serverMsgs, sendCalls, activeCalls, createCalls, loginCalls,
                   clock, signupCalls, profileCalls, serverProfile>>

CallMessagesSend(chatId, p, outcome, t) ==
    /\ apiCall' = [op |-> "send", chatId |-> chatId, payload |-> p, outcome |-> outcome,
                   out |-> MessagesSend(1, chatId, p, outcome, t)]
    /\ UNCHANGED <<storeVars, serverMsgs, sendCalls, activeCalls, createCalls, loginCalls,
                   clock, signupCalls, profileCalls, serverProfile>>

-----------------------------------------------------------------------------
(* api.storage.upload *)

\* A string of the configuration is kept with what the code asks of it: its
\* length and whether it includes "YOUR_SUPABASE".
DEFAULT_SUPABASE_PROJECT_URL ==
    [text |-> "https://yypehvatwtmwtrzuqwpc.supabase.co", length |-> 40, placeholder |-> FALSE]
DEFAULT_SUPABASE_ANON_KEY ==
    [text |-> "eyJhbGciOiJIUzI1NiIsInR5cCI6IkpXVCJ9", length |-> 208, placeholder |-> FALSE]
SUPABASE_BUCKET == "flick-uploads"

\* What localStorage may hold under 'supabase_project_url' and
\* 'supabase_anon_key': nothing, a value too short to be used, a usable one,
\* a placeholder.
StoredUrls ==
    { NULL,
      [text |-> "short", length |-> 5, placeholder |-> FALSE],
      [text |-> "https://mine.supabase.co", length |-> 24, placeholder |-> FALSE],
      [text |-> "https://YOUR_SUPABASE_URL.supabase.co", length |-> 37, placeholder |-> TRUE] }
StoredKeys ==
    { NULL,
      [text |-> "an-anon-key-of-my-own-project", length |-> 29, placeholder |-> FALSE],
      [text |-> "YOUR_SUPABASE_ANON_KEY_HERE", length |-> 27, placeholder |-> TRUE] }

\* getSupabaseConfig with the test of the placeholder left out.
GetSupabaseConfig_AlwaysConfigured(storedUrl, storedKey) ==
    [url |-> IF storedUrl # NULL /\ storedUrl.length > 20
             THEN storedUrl ELSE DEFAULT_SUPABASE_PROJECT_URL,
     key |-> IF storedKey # NULL /\ storedKey.length > 20
             THEN storedKey ELSE DEFAULT_SUPABASE_ANON_KEY,
     isConfigured |-> TRUE]

\* getSupabaseConfig: a stored value of more than 20 characters, else the
\* default; configured when neither includes the placeholder.
GetSupabaseConfig(storedUrl, storedKey) ==
    LET url == IF storedUrl # NULL /\ storedUrl.length > 20
               THEN storedUrl ELSE DEFAULT_SUPABASE_PROJECT_URL
        key == IF storedKey # NULL /\ storedKey.length > 20
               THEN storedKey ELSE DEFAULT_SUPABASE_ANON_KEY
    IN [url |-> url, key |-> key,
        isConfigured |-> ~url.placeholder /\ ~key.placeholder]

\* The files uploaded: the type is split at its '/', a Blob has no name.
Files ==
    { [type |-> <<"image", "png">>, name |-> "my photo.png"],
      [type |-> <<"audio", "ogg">>, name |-> ""],
      [type |-> <<"application", "pdf">>, name |-> "cv.pdf"],
      [type |-> <<"", "">>, name |-> ""] }

\* originalName.replace(/[^a-zA-Z0-9.]/g, '_') of the name or of 'file.bin'.
CleanName(name) ==
    CASE name = "" -> "file.bin"
      [] name = "my photo.png" -> "my_photo.png"
      [] OTHER -> name

\* `${Date.now()}_${random}_${cleanName}`, the random part left out.
UniquePath(t, file) == <<t, CleanName(file.name)>>

\* returnMockFallback: by the start of the type.
MockFallback(file, t) ==
    IF file.type[1] = "image" THEN <<"https://picsum.photos/seed/", t, "/800/600">>
    ELSE IF file.type[1] = "audio"
         THEN <<"https://actions.google.com/sounds/v1/ambiences/coffee_shop.ogg">>
         ELSE <<"https://via.placeholder.com/150">>

UploadUrl(config, path) == <<config.url.text, "/storage/v1/object/", SUPABASE_BUCKET, path>>
PublicUrl(config, path) ==
    <<config.url.text, "/storage/v1/object/public/", SUPABASE_BUCKET, path>>

\* How the storage answers the POST of the file: 2xx, another status, or the
\* fetch throws (the network, a cross-origin refusal).
UploadOutcomes == {"ok", "notok", "throws"}

\* api.storage.upload
StorageUpload(storedUrl, storedKey, file, outcome, t) ==
    LET config == GetSupabaseConfig(storedUrl, storedKey)
        path == UniquePath(t, file)
    IN IF ~config.isConfigured THEN Returned(MockFallback(file, t), <<>>)
       ELSE IF outcome = "ok"
            THEN Returned(PublicUrl(config, path), <<UploadUrl(config, path)>>)
            ELSE Returned(MockFallback(file, t), <<UploadUrl(config, path)>>)

CallUpload(storedUrl, storedKey, file, outcome, t) ==
    /\ apiCall' = [op |-> "upload", storedUrl |-> storedUrl, storedKey |-> storedKey,
                   file |-> file, outcome |-> outcome, at |-> t,
                   out |-> StorageUpload(storedUrl, storedKey, file, outcome, t)]
    /\ UNCHANGED <<storeVars, serverMsgs, sendCalls, activeCalls, createCalls, loginCalls,
                   clock, signupCalls, profileCalls, serverProfile>>

-----------------------------------------------------------------------------
\* generateFriendCode and the whole of mapUser.  A friend code is read
\* character by character, so it is a sequence of one-character strings (""
\* and a missing property are both the empty sequence); the other strings
\* are strings, and Characters gives the characters of those used as seeds.

Characters(s) ==
    CASE s = "u1" -> <<"u", "1">>
      [] s = "7" -> <<"7">>
      [] s = "a@b.c" -> <<"a", "@", "b", ".", "c">>
      [] s = "GydZG_" -> <<"G", "y", "d", "Z", "G", "_">>
      [] s = "zzzzzz" -> <<"z", "z", "z", "z", "z", "z">>
      [] s = "0.5" -> <<"0", ".", "5">>
      [] s = "0.1" -> <<"0", ".", "1">>

\* seed.charCodeAt(i), for the characters of the seeds above.
CharCodeAt(c) ==
    CASE c = "u" -> 117 [] c = "1" -> 49 [] c = "7" -> 55 [] c = "a" -> 97
      [] c = "@" -> 64 [] c = "b" -> 98 [] c = "." -> 46 [] c = "c" -> 99
      [] c = "G" -> 71 [] c = "y" -> 121 [] c = "d" -> 100 [] c = "Z" -> 90
      [] c = "_" -> 95 [] c = "z" -> 122 [] c = "0" -> 48 [] c = "5" -> 53

\* A 32-bit integer is the pair <<high, low>> of its 16-bit halves (two's
\* complement), so that no intermediate value leaves the range of the
\* checker's integers.  hash << 5, keeping 32 bits:
ShiftLeft5(h) ==
    <<(h[1] * 32 + (h[2] * 32) \div 65536) % 65536, (h[2] * 32) % 65536>>

\* a - b, keeping 32 bits.
Minus(a, b) ==
    LET lo == a[2] - b[2] + 65536
        borrow == IF lo < 65536 THEN 1 ELSE 0
    IN <<(a[1] - b[1] - borrow + 65536) % 65536, lo % 65536>>

\* a + c for a character code c, keeping 32 bits.
Plus(a, c) ==
    LET lo == a[2] + c
    IN <<(a[1] + lo \div 65536) % 65536, lo % 65536>>

\* One turn of the loop: hash = ((hash << 5) - hash) + code; hash |= 0.
HashStep(hash, c) == Plus(Minus(ShiftLeft5(hash), hash), c)

RECURSIVE HashOf(_)
\* The hash after the loop over the characters of the seed, from hash = 0.
HashOf(chars) ==
    IF chars = <<>> THEN <<0, 0>>
    ELSE HashStep(HashOf(SubSeq(chars, 1, Len(chars) - 1)), CharCodeAt(chars[Len(chars)]))

\* The number a 32-bit integer stands for, as a sign and a magnitude (the
\* magnitude of -2^31 is 2^31, which a JavaScript number holds).
NumberOf(h) ==
    IF h[1] >= 32768 THEN [neg |-> TRUE, mag |-> Minus(<<0, 0>>, h)]
    ELSE [neg |-> FALSE, mag |-> h]

\* Math.abs leaving the sign where it is.
MathAbs_KeepsSign(v) == v

\* Math.abs.
MathAbs(v) == [neg |-> FALSE, mag |-> v.mag]

\* v % 90000: the remainder has the sign of v.
Remainder90000(v) ==
    LET m == (((v.mag[1] * 256) % 90000) * 256 + v.mag[2]) % 90000
    IN IF v.neg THEN 0 - m ELSE m

Digit(d) == <<"0", "1", "2", "3", "4", "5", "6", "7", "8", "9">>[d + 1]

RECURSIVE DigitsOf(_)
DigitsOf(n) == IF n < 10 THEN <<Digit(n)>> ELSE DigitsOf(n \div 10) \o <<Digit(n % 10)>>

\* Number.prototype.toString of an integer.
NumberToString(n) == IF n < 0 THEN <<"-">> \o DigitsOf(0 - n) ELSE DigitsOf(n)

\* The values of Math.floor(Math.random() * 90000) taken here.
Draws == {0, 45000, 89999}

\* The number the code is the decimal text of, for a seed that is not empty.
CodeOf(seed) == Remainder90000(MathAbs(NumberOf(HashOf(Characters(seed))))) + 10000

\* generateFriendCode(seed), draw being what Math.random gives when it is
\* asked; no seed, or the empty string, asks it.
GenerateFriendCode(seed, draw) ==
    IF seed = "" THEN NumberToString(10000 + draw) ELSE NumberToString(CodeOf(seed))

Seeds == {"", "u1", "7", "a@b.c", "GydZG_", "zzzzzz", "0.5", "0.1"}

CallGenerateFriendCode(seed, draw) ==
    /\ apiCall' = [op |-> "generateFriendCode", seed |-> seed, draw |-> draw,
                   out |-> GenerateFriendCode(seed, draw)]
    /\ UNCHANGED <<storeVars, serverMsgs, sendCalls, activeCalls, createCalls, loginCalls,
                   clock, signupCalls, profileCalls, serverProfile>>

\* data.f of a payload: a property that is missing reads as undefined, which
\* is falsy as "" is.
Field(data, f) == IF f \in DOMAIN data THEN data[f] ELSE ""

\* data.friend_code, a sequence of characters.
FriendCodeField(data) == IF "friend_code" \in DOMAIN data THEN data.friend_code ELSE <<>>

\* data.avatar_url: [text |-> s] is the string s, [url |-> u] an object with
\* the property url.
AvatarField(data) == IF "avatar_url" \in DOMAIN data THEN data.avatar_url ELSE NULL

\* data.avatar_url?.url || data.avatar_url || the avatar generated for
\* data.name || 'User'.
AvatarUrl(data) ==
    LET avatar == AvatarField(data)
        generated == [generated |-> IF Field(data, "name") # "" THEN Field(data, "name")
                                   ELSE "User"]
    IN IF avatar = NULL THEN generated
       ELSE IF "url" \in DOMAIN avatar
            THEN IF avatar.url # "" THEN [text |-> avatar.url] ELSE avatar
            ELSE IF avatar.text # "" THEN avatar ELSE generated

\* What Math.random().toString() gives when mapUser asks it.
RandomTexts == {"0.5", "0.1"}

\* mapUser(data) with every field but lastSeen (which is optional); random
\* is the text of Math.random(), evaluated whenever data has no id and no
\* email.
MapUserWith(data, random) ==
    IF data = NULL
    THEN [id |-> "unknown", username |-> "Unknown User", email |-> "",
          avatarUrl |-> [text |-> "https://via.placeholder.com/150"],
          friendCode |-> <<"0", "0", "0", "0", "0">>, status |-> "offline"]
    ELSE LET seedForCode == IF Field(data, "id") # "" THEN Field(data, "id")
                            ELSE IF Field(data, "email") # "" THEN Field(data, "email")
                            ELSE random
             realFriendCode == IF FriendCodeField(data) # <<>> THEN FriendCodeField(data)
                               ELSE GenerateFriendCode(seedForCode, 0)
             username == IF Field(data, "username") # "" THEN Field(data, "username")
                         ELSE IF Field(data, "name") # "" THEN Field(data, "name")
                         ELSE "User"
         IN [id |-> IF Field(data, "id") # "" THEN Field(data, "id") ELSE "unknown",
             username |-> username,
             email |-> Field(data, "email"),
             avatarUrl |-> AvatarUrl(data),
             friendCode |-> realFriendCode,
             status |-> IF Field(data, "status") # "" THEN Field(data, "status")
                        ELSE "offline",
             bio |-> Field(data, "bio")]

\* The payloads given to mapUser: none, a complete one, and malformed ones.
UserPayloadKinds ==
    {"absent", "complete", "empty", "idOnly", "emailOnly", "nameOnly", "numericId",
     "minHash", "negativeHash", "avatarObject", "avatarEmptyObject", "letters",
     "short", "long"}

UserPayload(kind) ==
    CASE kind = "absent" -> NULL
      [] kind = "complete" ->
           [id |-> "u1", username |-> "alice", email |-> "a@b.c",
            avatar_url |-> [text |-> "a.png"], friend_code |-> <<"1", "2", "8", "4", "9">>,
            status |-> "online", bio |-> "hi"]
      [] kind = "empty" -> [bio |-> ""]
      [] kind = "idOnly" -> [id |-> "u1"]
      [] kind = "emailOnly" -> [email |-> "a@b.c"]
      [] kind = "nameOnly" -> [name |-> "Al"]
      [] kind = "numericId" -> [id |-> "7", username |-> "bob"]
      [] kind = "minHash" -> [id |-> "GydZG_", username |-> "bob"]
      [] kind = "negativeHash" -> [id |-> "zzzzzz", avatar_url |-> [text |-> ""]]
      [] kind = "avatarObject" -> [id |-> "u1", avatar_url |-> [url |-> "a.png"]]
      [] kind = "avatarEmptyObject" -> [id |-> "u1", avatar_url |-> [url |-> ""]]
      [] kind = "letters" -> [id |-> "u1", username |-> "alice",
                              friend_code |-> <<"a", "b", "c">>]
      [] kind = "short" -> [id |-> "u1", friend_code |-> <<"1", "2">>]
      [] kind = "long" -> [email |-> "a@b.c", friend_code |-> <<"1", "2", "3", "4", "5", "6">>]

CallMapUser(kind, random) ==
    /\ apiCall' = [op |-> "mapUser", kind |-> kind, random |-> random,
                   out |-> MapUserWith(UserPayload(kind), random)]
    /\ UNCHANGED <<storeVars, serverMsgs, sendCalls, activeCalls, createCalls, loginCalls,
                   clock, signupCalls, profileCalls, serverProfile>>

-----------------------------------------------------------------------------
Next ==
    \/ \E c \in ChatIds, p \in Payloads : SendMessage(c, p)
    \/ \E i \in 1..MaxCalls, o \in Outcomes, t \in Stamps : SendComplete(i, o, t)
    \/ \E c \in ChatIds : SetActiveChat(c)
    \/ \E k \in 1..MaxCalls, o \in Outcomes : ActiveFetched(k, o)
    \/ \E k \in 1..MaxCalls : ActiveApply(k)
    \/ \E f \in FriendCodes : CreateChat(f)
    \/ \E k \in 1..MaxCalls, o \in Outcomes, t \in Stamps :
          CreateComplete(k, o, CreatedChatId, t)
    \/ Login
    \/ \E k \in 1..MaxCalls, o \in Outcomes : LoginAuthenticated(k, o)
    \/ \E k \in 1..MaxCalls, o \in Outcomes, l \in ChatListings : LoginChats(k, o, l)
    \/ Logout
    \/ \E b \in BOOLEAN : SetSettingsOpen(b)

Spec == Init /\ [][Next]_vars

\* The session actions of the store on their own: login, signup, profile
\* updates and logout.
SessionNext ==
    \/ Login
    \/ \E k \in 1..MaxCalls, o \in Outcomes : LoginAuthenticated(k, o)
    \/ \E k \in 1..MaxCalls, o \in Outcomes, l \in ChatListings : LoginChats(k, o, l)
    \/ Signup
    \/ \E k \in 1..MaxCalls, o \in Outcomes : SignupComplete(k, o)
    \/ \E u \in Updates : UpdateUserProfile(u)
    \/ \E k \in 1..MaxCalls, d \in Outcomes, o \in Outcomes : UpdateComplete(k, d, o)
    \/ Logout

SessionSpec == Init /\ [][SessionNext]_vars

\* The calls of the access layer on their own.
ApiNext ==
    \/ \E res \in AuthAnswers, authMe \in ProfileAnswers, me \in ProfileAnswers :
          CallLogin(res, authMe, me)
    \/ \E res \in AuthAnswers, authMe \in ProfileAnswers, me \in ProfileAnswers :
          CallSignup(res, authMe, me)
    \/ \E id \in UserIds, u \in Updates, direct \in ProfileAnswers, own \in ProfileAnswers :
          CallUsersUpdate(id, u, direct, own)
    \/ \E res \in ChatListAnswers : CallChatsList(res)
    \/ \E c \in ChatIds, kind \in MessageListKinds :
          CallMessagesList(c, kind)
    \/ \E c \in ChatIds, p \in Payloads, o \in Outcomes, t \in Stamps :
          CallMessagesSend(c, p, o, t)
    \/ \E u \in StoredUrls, k \in StoredKeys, f \in Files, o \in UploadOutcomes,
          t \in Stamps : CallUpload(u, k, f, o, t)
    \/ \E seed \in Seeds, draw \in Draws : CallGenerateFriendCode(seed, draw)
    \/ \E kind \in UserPayloadKinds, random \in RandomTexts : CallMapUser(kind, random)

ApiSpec == Init /\ [][ApiNext]_vars

\* sendMessage and setActiveChat on their own, every remote send being
\* answered in the end: the continuation of a pending send runs when its
\* request resolves or rejects, and every request does one or the other.
MessagingNext ==
    \/ \E c \in ChatIds, p \in Payloads : SendMessage(c, p)
    \/ \E i \in 1..MaxCalls, o \in Outcomes, t \in Stamps : SendComplete(i, o, t)
    \/ \E c \in ChatIds : SetActiveChat(c)
    \/ \E k \in 1..MaxCalls, o \in Outcomes : ActiveFetched(k, o)
    \/ \E k \in 1..MaxCalls : ActiveApply(k)

SendsSettle ==
    \A i \in 1..MaxCalls :
        WF_vars(\E o \in Outcomes, t \in Stamps : SendComplete(i, o, t))

MessagingSpec == Init /\ [][MessagingNext]_vars /\ SendsSettle

\* The store driven as the chat list drives it: setActiveChat is called only
\* with the id of a chat that is in chats when it is called.
SelectListedChat(chatId) == chatId \in ChatIdsIn(chats) /\ SetActiveChat(chatId)

ListedNext ==
    \/ \E c \in ChatIds, p \in Payloads : SendMessage(c, p)
    \/ \E i \in 1..MaxCalls, o \in Outcomes, t \in Stamps : SendComplete(i, o, t)
    \/ \E c \in ChatIds : SelectListedChat(c)
    \/ \E k \in 1..MaxCalls, o \in Outcomes : ActiveFetched(k, o)
    \/ \E k \in 1..MaxCalls : ActiveApply(k)
    \/ \E f \in FriendCodes : CreateChat(f)
    \/ \E k \in 1..MaxCalls, o \in Outcomes, t \in Stamps :
          CreateComplete(k, o, CreatedChatId, t)
    \/ Login
    \/ \E k \in 1..MaxCalls, o \in Outcomes : LoginAuthenticated(k, o)
    \/ \E k \in 1..MaxCalls, o \in Outcomes, l \in ChatListings : LoginChats(k, o, l)
    \/ Logout
    \/ \E b \in BOOLEAN : SetSettingsOpen(b)

ListedSpec == Init /\ [][ListedNext]_vars

-----------------------------------------------------------------------------
(* Steps, named by what they do to the call records. *)

\* The i-th sendMessage call is made in this step.
SendInvoked(i) == Len(sendCalls) = i - 1 /\ Len(sendCalls') = i

\* The remote send of the i-th call settles in this step.
SendResolved(i) ==
    i \in 1..Len(sendCalls) /\ sendCalls[i].pc = "awaiting" /\ sendCalls'[i].pc = "resolved"
SendRejected(i) ==
    i \in 1..Len(sendCalls) /\ sendCalls[i].pc = "awaiting" /\ sendCalls'[i].pc = "rejected"

\* The refresh of the k-th setActiveChat call is applied in this step.
RefreshApplied(k) ==
    k \in 1..Len(activeCalls) /\ activeCalls[k].pc = "fetched" /\ activeCalls'[k].pc = "done"

\* The k-th createChat call is made, and settles, in this step.
CreateInvoked(k) == Len(createCalls) = k - 1 /\ Len(createCalls') = k
CreateSettled(k) ==
    k \in 1..Len(createCalls) /\ createCalls[k].pc = "awaiting" /\ createCalls'[k].pc = "done"

\* The ids of all messages in all lists of ms.
IdsIn(ms) == UNION {{ms[c][p].id : p \in 1..Len(ms[c])} : c \in DOMAIN ms}

-----------------------------------------------------------------------------
\* C1: the step that makes a sendMessage call turns messages[chatId] into the
\* previous list (the empty list when the chat had none) with exactly one
\* entry appended, and that entry has the content and type passed in and a
\* temporary id no message had before; the remote call is still pending.
C1_OptimisticAppend ==
    [][\A i \in 1..MaxCalls : SendInvoked(i) =>
          LET call == sendCalls'[i]
              before == MessagesOf(messages, call.chatId)
              after == MessagesOf(messages', call.chatId)
          IN /\ call.pc = "awaiting"
             /\ call.chatId \in DOMAIN messages'
             /\ Len(after) = Len(before) + 1
             /\ SubSeq(after, 1, Len(before)) = before
             /\ after[Len(after)].content = call.content
             /\ after[Len(after)].type = call.type
             /\ after[Len(after)].id = call.tempId
             /\ call.tempId[1] = "msg"
             /\ call.tempId \notin IdsIn(messages)]_vars

\* A send is pending and its entry was appended to a list that already had
\* another message.
C1_Witness ==
    \E i \in 1..Len(sendCalls) :
        LET call == sendCalls[i]
            list == MessagesOf(messages, call.chatId)
        IN /\ call.pc = "awaiting"
           /\ Len(list) >= 2
           /\ list[Len(list)].id = call.tempId
           /\ list[Len(list)].type = "IMAGE"

-----------------------------------------------------------------------------
\* C2: the step in which the remote send of a call succeeds puts the confirmed
\* message, which has an id assigned by the service and not a temporary one,
\* at the position of messages[chatId] where the call's temporary entry was
\* put, and leaves the length of the list as it was.
C2_ReplacedInPlace ==
    [][\A i \in 1..MaxCalls : SendResolved(i) =>
          LET call == sendCalls'[i]
              before == MessagesOf(messages, call.chatId)
              after == MessagesOf(messages', call.chatId)
          IN /\ Len(after) = Len(before)
             /\ call.savedMessage.id[1] # "msg"
             /\ \E p \in 1..Len(before) :
                   before[p].id = call.tempId /\ after[p] = call.savedMessage]_vars

-----------------------------------------------------------------------------
\* The list without the entries that carry the id.
Others(list, id) == LET Other(m) == m.id # id IN SelectSeq(list, Other)

\* The positions of the list that carry the id.
PositionsOf(list, id) == {p \in 1..Len(list) : list[p].id = id}

\* C3 as stated: the step in which the remote send of a call fails removes the
\* call's temporary entry, and the list is then as long as it was before the
\* sendMessage call.
C3_LengthRestored ==
    [][\A i \in 1..MaxCalls : SendRejected(i) =>
          LET call == sendCalls[i]
              after == MessagesOf(messages', call.chatId)
          IN /\ PositionsOf(after, call.tempId) = {}
             /\ Len(after) = call.lenBefore]_vars

\* C3 as amended: the step in which the remote send of a call fails leaves no
\* entry with the call's temporary id in messages[chatId]; the list is the
\* list before that step with that one entry taken out, one shorter if the
\* entry was still there and unchanged if it was not.
C3_EntryRemoved ==
    [][\A i \in 1..MaxCalls : SendRejected(i) =>
          LET call == sendCalls[i]
              before == MessagesOf(messages, call.chatId)
              after == MessagesOf(messages', call.chatId)
              at == PositionsOf(before, call.tempId)
          IN /\ PositionsOf(after, call.tempId) = {}
             /\ Cardinality(at) <= 1
             /\ Len(after) = Len(before) - Cardinality(at)
             /\ \A q \in 1..Len(after) :
                   after[q] = IF \E p \in at : p <= q THEN before[q + 1] ELSE before[q]]_vars

\* A send has failed after a later send to the same chat was made: its entry
\* is gone, the other entry is left, and the list is longer than it was
\* before the failed call.
C3_Witness ==
    \E i \in 1..Len(sendCalls) :
        LET call == sendCalls[i]
            list == MessagesOf(messages, call.chatId)
        IN /\ call.pc = "rejected"
           /\ PositionsOf(list, call.tempId) = {}
           /\ Len(list) > call.lenBefore

-----------------------------------------------------------------------------
\* C4: logout can be taken in every state, and a logout step leaves
\* currentUser null, activeChatId null, chats empty, isSettingsOpen false and
\* no auth token in the local storage.
C4_LogoutClears ==
    /\ [](ENABLED Logout)
    /\ [][Logout => /\ currentUser' = NULL
                    /\ activeChatId' = NULL
                    /\ chats' = <<>>
                    /\ isSettingsOpen' = FALSE
                    /\ authToken' = NULL]_vars

\* A session was opened and a chat created and selected in it, and all of it
\* has been cleared: logout has run.
C4_Witness ==
    /\ \E k \in 1..Len(loginCalls) : loginCalls[k].pc \in {"chats", "done"}
    /\ \E k \in 1..Len(createCalls) : createCalls[k].ret = "true"
    /\ currentUser = NULL /\ authToken = NULL
    /\ activeChatId = NULL /\ chats = <<>> /\ ~isSettingsOpen

-----------------------------------------------------------------------------
\* C5: a logout step leaves the state as it was initially for the user, the
\* chats and the messages: no user, no chats and no message list under any
\* chat id.
C5_LogoutClearsMessages ==
    [][Logout => /\ currentUser' = NULL
                 /\ chats' = <<>>
                 /\ messages' = <<>>]_vars

-----------------------------------------------------------------------------
\* C6: the step that applies the outcome of a send changes, in messages, only
\* the entry with that send's temporary id: the lists of the other chats are
\* the same, and in the chat's own list every other entry, a pending one of
\* another send included, is the same and in the same order, whichever of the
\* pending sends settles first.
C6_OnlyOwnEntry ==
    [][\A i \in 1..MaxCalls : (SendResolved(i) \/ SendRejected(i)) =>
          LET call == sendCalls[i]
              before == MessagesOf(messages, call.chatId)
              after == MessagesOf(messages', call.chatId)
          IN /\ \A c \in DOMAIN messages \ {call.chatId} :
                   c \in DOMAIN messages' /\ messages'[c] = messages[c]
             /\ DOMAIN messages' \subseteq DOMAIN messages \cup {call.chatId}
             /\ SendResolved(i) =>
                   /\ Len(after) = Len(before)
                   /\ \A p \in 1..Len(before) :
                         before[p].id # call.tempId => after[p] = before[p]
             /\ SendRejected(i) => after = Others(before, call.tempId)]_vars

\* A send has settled while an earlier send to the same chat is pending with
\* its entry in the list, and another chat has messages too.
C6_Witness ==
    \E i, j \in 1..Len(sendCalls) :
        /\ j < i
        /\ sendCalls[i].chatId = sendCalls[j].chatId
        /\ sendCalls[i].pc \in {"resolved", "rejected"}
        /\ sendCalls[j].pc = "awaiting"
        /\ PositionsOf(MessagesOf(messages, sendCalls[j].chatId), sendCalls[j].tempId) # {}
        /\ \E c \in DOMAIN messages : c # sendCalls[i].chatId /\ messages[c] # <<>>

-----------------------------------------------------------------------------
\* The positions of the list that hold the entry of the i-th send: the
\* temporary entry, or the confirmed message of that send.
EntryOf(i, list) == {p \in 1..Len(list) : list[p].call = i}

\* The entries of the sends i and j are not both in the list, or that of i
\* comes before that of j.
InOrder(i, j, list) ==
    \A p \in EntryOf(i, list), q \in EntryOf(j, list) : p < q

\* C7 as stated: whenever the entries of two sends to the same chat are both
\* in messages[chatId], the entry of the send invoked first comes first.
C7_InvocationOrder ==
    \A i, j \in 1..Len(sendCalls) :
        (i < j /\ sendCalls[i].chatId = sendCalls[j].chatId)
            => InOrder(i, j, MessagesOf(messages, sendCalls[i].chatId))

\* C7 as amended: a sendMessage step puts its entry after the entries of the
\* earlier sends to the chat, and every step that is not the application of a
\* setActiveChat refresh to that chat keeps the entries of two sends in the
\* order of their invocation, whichever send settles first.
C7_OrderKeptBySends ==
    [][\A i, j \in 1..MaxCalls :
          (/\ i < j /\ j <= Len(sendCalls')
           /\ sendCalls'[i].chatId = sendCalls'[j].chatId
           /\ j <= Len(sendCalls) =>
                 InOrder(i, j, MessagesOf(messages, sendCalls[i].chatId))
           /\ ~ \E k \in 1..MaxCalls :
                   RefreshApplied(k) /\ activeCalls[k].chatId = sendCalls'[i].chatId)
          => InOrder(i, j, MessagesOf(messages', sendCalls'[i].chatId))]_vars

\* Two sends to one chat: the later one has succeeded, the earlier one is
\* still pending, and both entries are in the list.
C7_Witness ==
    \E i, j \in 1..Len(sendCalls) :
        LET list == MessagesOf(messages, sendCalls[i].chatId)
        IN /\ i < j
           /\ sendCalls[i].chatId = sendCalls[j].chatId
           /\ sendCalls[i].pc = "awaiting" /\ sendCalls[j].pc = "resolved"
           /\ EntryOf(i, list) # {} /\ EntryOf(j, list) # {}

-----------------------------------------------------------------------------
\* The k-th setActiveChat call is made in this step.
ActiveInvoked(k) == Len(activeCalls) = k - 1 /\ Len(activeCalls') = k

\* C8: a setActiveChat step sets activeChatId to the chat passed in, and when
\* the request of its refresh has failed, applying the refresh leaves the
\* messages cached for the chat as they were.
C8_FailedRefreshKeepsCache ==
    [][/\ \A k \in 1..MaxCalls :
             ActiveInvoked(k) => activeChatId' = activeCalls'[k].chatId
       /\ \A k \in 1..MaxCalls :
             (RefreshApplied(k) /\ activeCalls[k].outcome = "fail")
                 => MessagesOf(messages', activeCalls[k].chatId)
                      = MessagesOf(messages, activeCalls[k].chatId)]_vars

-----------------------------------------------------------------------------
\* C9: the step that makes a createChat call changes neither chats nor
\* activeChatId; the step in which the creation succeeds puts the new chat
\* first in chats, with the chats there were after it in their order, makes
\* its id the activeChatId, and the call returns true.
C9_CreatePrepends ==
    [][\A k \in 1..MaxCalls :
          /\ CreateInvoked(k) => chats' = chats /\ activeChatId' = activeChatId
          /\ (CreateSettled(k) /\ createCalls'[k].newChat # NULL) =>
                /\ Len(chats') = Len(chats) + 1
                /\ chats'[1] = createCalls'[k].newChat
                /\ \A p \in 1..Len(chats) : chats'[p + 1] = chats[p]
                /\ activeChatId' = createCalls'[k].newChat.id
                /\ createCalls'[k].ret = "true"]_vars

\* A creation has succeeded where there were chats before: the new chat is
\* first and selected, and another chat follows it.
C9_Witness ==
    \E k \in 1..Len(createCalls) :
        /\ createCalls[k].ret = "true"
        /\ Len(chats) >= 2
        /\ chats[1] = createCalls[k].newChat
        /\ chats[2].id # chats[1].id
        /\ activeChatId = chats[1].id

-----------------------------------------------------------------------------
\* The friend codes of the built-in demo users.
DemoCodes == {MOCK_USERS[p].friendCode : p \in 1..Len(MOCK_USERS)}

\* C10: when the service rejects the creation and the friend code is not a
\* demo user's, the createChat call returns false (it throws nothing) and the
\* step leaves chats, activeChatId and messages as they were.
C10_UnknownCodeFails ==
    [][\A k \in 1..MaxCalls :
          (/\ CreateSettled(k)
           /\ createCalls'[k].outcome = "fail"
           /\ createCalls[k].friendCode \notin DemoCodes)
          => /\ createCalls'[k].ret = "false"
             /\ chats' = chats
             /\ activeChatId' = activeChatId
             /\ messages' = messages]_vars

\* A creation with a code nobody has was rejected and returned false, in a
\* state with chats, a selected chat and messages to keep.
C10_Witness ==
    \E k \in 1..Len(createCalls) :
        /\ createCalls[k].outcome = "fail"
        /\ createCalls[k].friendCode \notin DemoCodes
        /\ createCalls[k].ret = "false"
        /\ chats # <<>> /\ activeChatId # NULL /\ messages # <<>>
-----------------------------------------------------------------------------
\* The k-th updateUserProfile call is made, succeeds and fails in this step.
ProfileInvoked(k) == Len(profileCalls) = k - 1 /\ Len(profileCalls') = k
ProfileResolved(k) ==
    k \in 1..Len(profileCalls) /\ profileCalls[k].pc = "awaiting" /\ profileCalls'[k].pc = "done"
ProfileRejected(k) ==
    k \in 1..Len(profileCalls) /\ profileCalls[k].pc = "awaiting" /\ profileCalls'[k].pc = "threw"

-----------------------------------------------------------------------------
\* The k-th login call gets its user, fails, and gets its chat list in this step.
LoginSucceeded(k) ==
    k \in 1..Len(loginCalls) /\ loginCalls[k].pc = "auth" /\ loginCalls'[k].pc = "chats"
LoginFailed(k) ==
    k \in 1..Len(loginCalls) /\ loginCalls[k].pc = "auth" /\ loginCalls'[k].pc = "threw"
LoginListed(k) ==
    k \in 1..Len(loginCalls) /\ loginCalls[k].pc = "chats" /\ loginCalls'[k].pc = "done"

\* The chat lists a listing of the service maps to.
MappedListings ==
    {[p \in 1..Len(l.array) |-> MapChat(l.array[p])] : l \in ChatListings}

\* C12: the step in which a login is accepted makes the returned user the
\* currentUser and stores the returned token, and the login goes on to ask
\* for the chats; the step that ends it makes chats the listing of the
\* service, or the empty list when the listing failed, and the login has
\* then succeeded either way.  The step in which a login is refused ends it
\* with the error thrown and leaves currentUser, chats and the stored token as
\* they were.
C12_LoginInstalls ==
    [][\A k \in 1..MaxCalls :
          /\ LoginSucceeded(k) =>
                /\ currentUser' = MapUser(ServerUser)
                /\ authToken' = ServerToken
          /\ LoginListed(k) =>
                /\ loginCalls'[k].listing = "fail" => chats' = <<>>
                /\ loginCalls'[k].listing = "ok" => chats' \in MappedListings
                /\ UNCHANGED <<currentUser, authToken>>
          /\ (k \in 1..Len(loginCalls) /\ loginCalls[k].pc = "chats") =>
                loginCalls'[k].pc \in {"chats", "done"}
          /\ LoginFailed(k) => UNCHANGED <<currentUser, chats, authToken>>]_vars

\* A login has succeeded although its chat listing failed, where an earlier
\* login had loaded chats: the user and the token are there and chats is
\* empty.
C12_Witness ==
    \E j, k \in 1..Len(loginCalls) :
        /\ j # k
        /\ loginCalls[j].pc = "done" /\ loginCalls[j].listing = "ok"
        /\ loginCalls[k].pc = "done" /\ loginCalls[k].listing = "fail"
        /\ currentUser = MapUser(ServerUser) /\ authToken = ServerToken
        /\ chats = <<>>
-----------------------------------------------------------------------------
\* The k-th signup call is accepted in this step.
SignupSucceeded(k) ==
    k \in 1..Len(signupCalls) /\ signupCalls[k].pc = "auth" /\ signupCalls'[k].pc # "auth"
       /\ signupCalls'[k].pc # "threw"

\* C13: the step in which a signup is accepted does what the step in which a
\* login is accepted does: it makes the returned user the currentUser, and
\* the call goes on to ask the service for the chat list, which it then
\* installs in chats.
C13_SignupLoadsChats ==
    [][\A k \in 1..MaxCalls :
          SignupSucceeded(k) =>
             /\ currentUser' = MapUser(ServerUser)
             /\ signupCalls'[k].pc = "chats"]_vars
-----------------------------------------------------------------------------
\* C14: the step in which the remote send of a call fails leaves chats, and
\* with it the lastMessage of the chat, as it was: the chat keeps the
\* lastMessage it had, the failed message itself if nothing else has set it,
\* while that message is taken out of messages[chatId].
C14_LastMessageKept ==
    [][\A i \in 1..MaxCalls : SendRejected(i) =>
          /\ chats' = chats
          /\ PositionsOf(MessagesOf(messages', sendCalls[i].chatId),
                         sendCalls[i].tempId) = {}]_vars

\* A send to a listed chat has failed: the chat's lastMessage is the failed
\* message, which is not in the chat's list.
C14_Witness ==
    \E i \in 1..Len(sendCalls), p \in 1..Len(chats) :
        /\ sendCalls[i].pc = "rejected"
        /\ chats[p].id = sendCalls[i].chatId
        /\ chats[p].lastMessage # NULL
        /\ chats[p].lastMessage.id = sendCalls[i].tempId
        /\ PositionsOf(MessagesOf(messages, sendCalls[i].chatId), sendCalls[i].tempId) = {}
-----------------------------------------------------------------------------
\* An answer with a body that is there.
Yields(answer) == answer.ok /\ answer.body # NULL

\* C15: a call of api.auth.login or api.auth.signup returns the token of the
\* answer and the mapped profile when the answer to the credentials carries a
\* profile, and when it carries none but a token, and then /auth/me, or after
\* a failure of /auth/me then /me, is asked and yields a profile; it throws
\* in every other case, which is when the request of the credentials fails
\* or no profile comes from the answer or from the requests that follow.
C15_Authenticate ==
    apiCall.op \in {"login", "signup"} =>
        LET res == apiCall.res
            out == apiCall.out
            first == IF apiCall.op = "login" THEN "/auth/login" ELSE "/auth/signup"
            inAnswer == Yields(res) /\ res.body.user # NULL
            followUp == Yields(res) /\ res.body.user = NULL /\ res.body.authToken # NULL
            fromAuthMe == followUp /\ Yields(apiCall.authMe)
            fromMe == followUp /\ ~apiCall.authMe.ok /\ Yields(apiCall.me)
        IN /\ out.ok <=> (inAnswer \/ fromAuthMe \/ fromMe)
           /\ out.ok => out.value.authToken = res.body.authToken
           /\ inAnswer => out.value.user = MapUser(res.body.user) /\ out.asked = <<first>>
           /\ fromAuthMe => /\ out.value.user = MapUser(apiCall.authMe.body)
                            /\ out.asked = <<first, "/auth/me">>
           /\ fromMe => /\ out.value.user = MapUser(apiCall.me.body)
                        /\ out.asked = <<first, "/auth/me", "/me">>
           /\ ~out.ok => out.error # ""
           /\ ~res.ok => ~out.ok /\ out.asked = <<first>>

\* A signup was answered with a token and no profile, /auth/me failed and /me
\* gave the profile: the call has returned the token and the user mapped from
\* it.
C15_Witness ==
    /\ apiCall.op = "signup"
    /\ apiCall.res.ok /\ apiCall.res.body # NULL /\ apiCall.res.body.user = NULL
    /\ ~apiCall.authMe.ok
    /\ apiCall.out.ok
    /\ apiCall.out.asked = <<"/auth/signup", "/auth/me", "/me">>
    /\ apiCall.out.value.user = [id |-> "u1", username |-> "Al", bio |-> ""]
    /\ apiCall.out.value.authToken = ServerToken
-----------------------------------------------------------------------------
\* C16: a call of api.users.update asks the user's resource first, unless the
\* id is empty or 'unknown'; when that attempt yields a user it returns that
\* user mapped and asks nothing more; when it was skipped, failed or yielded
\* nothing it asks the own-profile endpoint and returns what that answers,
\* mapped; it throws the profile-update error only when no attempt has
\* yielded anything, namely when the own-profile request fails.
C16_UpdateFallsBack ==
    apiCall.op = "update" =>
        LET out == apiCall.out
            tried == apiCall.userId \notin {"", "unknown"}
            fromDirect == tried /\ Yields(apiCall.direct)
        IN /\ fromDirect => out = Returned(MapUser(apiCall.direct.body), <<"/user">>)
           /\ ~fromDirect =>
                 /\ out.asked = IF tried THEN <<"/user", "/auth/me">> ELSE <<"/auth/me">>
                 /\ apiCall.own.ok => out.ok /\ out.value = MapUser(apiCall.own.body)
                 /\ ~apiCall.own.ok => ~out.ok
           /\ ~out.ok => /\ out.error = "Failed to save profile changes."
                         /\ ~(tried /\ Yields(apiCall.direct))
                         /\ ~apiCall.own.ok

\* The first attempt was made and failed and the own-profile endpoint
\* answered: the call has returned the user of the second attempt.
C16_Witness ==
    /\ apiCall.op = "update"
    /\ apiCall.userId = "u1"
    /\ ~apiCall.direct.ok
    /\ apiCall.own = Answer(OtherProfile)
    /\ apiCall.out.ok
    /\ apiCall.out.asked = <<"/user", "/auth/me">>
    /\ apiCall.out.value.username = "Al"
-----------------------------------------------------------------------------
\* C17: when the request of a creation fails, api.chats.create returns, for
\* the friend code of a demo user, a chat with a local_ id that is no group
\* and has exactly two participants, the current user of the session and that
\* demo user, and for any other code it lets the error through (the store's
\* createChat then returns false).
C17_LocalChatOfCurrentUser ==
    [][\A k \in 1..MaxCalls :
          (CreateSettled(k) /\ createCalls'[k].outcome = "fail") =>
             LET call == createCalls'[k]
                 chat == call.newChat
             IN IF call.friendCode \in DemoCodes
                THEN /\ chat # NULL
                     /\ IsLocal(chat.id)
                     /\ ~chat.isGroup
                     /\ Len(chat.participants) = 2
                     /\ currentUser # NULL => chat.participants[1] = currentUser.id
                     /\ chat.participants[2] = MockFriend(call.friendCode).id
                ELSE chat = NULL /\ call.ret = "false"]_vars
-----------------------------------------------------------------------------
\* C18: for a chat with a local_ id, api.messages.list returns the empty
\* list and api.messages.send returns a message with the chat id, content,
\* type and attachments it was given, and neither asks the service anything
\* nor throws, whatever the service would answer; for any other chat id
\* api.messages.send posts to the service and throws when the request fails.
C18_LocalChatsStayLocal ==
    /\ apiCall.op = "listMessages" =>
          (apiCall.chatId[1] = "local" => apiCall.out = Returned(<<>>, <<>>))
    /\ apiCall.op = "send" =>
          LET out == apiCall.out
              p == apiCall.payload
          IN IF apiCall.chatId[1] = "local"
             THEN /\ out.ok /\ out.asked = <<>>
                  /\ out.value.id[1] = "local_msg"
                  /\ out.value.chatId = apiCall.chatId
                  /\ out.value.content = p.content
                  /\ out.value.type = p.type
                  /\ out.value.attachments = p.attachments
             ELSE /\ out.asked = <<"/message">>
                  /\ out.ok <=> apiCall.outcome = "ok"
                  /\ out.ok => out.value.id[1] = "srv"

\* A message with an attachment was sent to a local chat while the service
\* answers nothing: the call has returned the message without asking.
C18_Witness ==
    /\ apiCall.op = "send"
    /\ apiCall.chatId = LocalChatId(1)
    /\ apiCall.outcome = "fail"
    /\ apiCall.out.ok
    /\ apiCall.out.asked = <<>>
    /\ apiCall.out.value.type = "IMAGE"
    /\ apiCall.out.value.attachments = <<"a1">>
-----------------------------------------------------------------------------
\* C19: a call of api.chats.list or api.messages.list never throws; it
\* returns the empty list when the request fails or is answered with a body
\* that is no array, and otherwise the entities of the array, mapped one by
\* one in their order.
C19_ListsDegrade ==
    apiCall.op \in {"listChats", "listMessages"} =>
        LET res == apiCall.res
            out == apiCall.out
            listed == res.ok /\ res.body # NULL /\ DOMAIN res.body = {"array"}
        IN /\ out.ok
           /\ ~listed => out.value = <<>>
           /\ (listed /\ apiCall.op = "listChats") =>
                 /\ Len(out.value) = Len(res.body.array)
                 /\ \A p \in 1..Len(out.value) : out.value[p] = MapChat(res.body.array[p])
           /\ (listed /\ apiCall.op = "listMessages" /\ apiCall.chatId[1] # "local") =>
                 /\ Len(out.value) = Len(res.body.array)
                 /\ \A p \in 1..Len(out.value) :
                       /\ out.value[p] = MapMessage(res.body.array[p])
                       /\ out.value[p].id = res.body.array[p].id

\* The messages of a chat were asked for and the request failed: the call has
\* returned the empty list after asking the service.
C19_Witness ==
    /\ apiCall.op = "listMessages"
    /\ apiCall.chatId = <<"chat", 1>>
    /\ ~apiCall.res.ok
    /\ apiCall.out = Returned(<<>>, <<"/message">>)
-----------------------------------------------------------------------------
\* C20: a call of api.storage.upload never throws.  When the storage is
\* configured (the url and the key in use, each the stored one if longer than
\* 20 characters and else the default, include no placeholder) and the POST
\* is answered 2xx, it returns the public URL of the object key it posted
\* to; in every other case, the storage not configured, another status, a
\* fetch that throws, it returns the fallback URL for the type of the file:
\* image, audio or other.
C20_UploadNeverThrows ==
    apiCall.op = "upload" =>
        LET out == apiCall.out
            usable(stored) == stored # NULL /\ stored.length > 20
            url == IF usable(apiCall.storedUrl) THEN apiCall.storedUrl
                                                ELSE DEFAULT_SUPABASE_PROJECT_URL
            key == IF usable(apiCall.storedKey) THEN apiCall.storedKey
                                                ELSE DEFAULT_SUPABASE_ANON_KEY
            configured == ~url.placeholder /\ ~key.placeholder
            kind == apiCall.file.type[1]
        IN /\ out.ok
           /\ ~configured => out.asked = <<>>
           /\ configured => Len(out.asked) = 1 /\ out.asked[1][1] = url.text
           /\ (configured /\ apiCall.outcome = "ok") =>
                 /\ out.value[1] = url.text
                 /\ out.value[2] = "/storage/v1/object/public/"
                 /\ out.value[3] = "flick-uploads"
                 /\ out.value[4] = out.asked[1][4]
           /\ ~(configured /\ apiCall.outcome = "ok") =>
                 /\ kind = "image" => out.value[1] = "https://picsum.photos/seed/"
                 /\ kind = "audio" => out.value =
                       <<"https://actions.google.com/sounds/v1/ambiences/coffee_shop.ogg">>
                 /\ kind \notin {"image", "audio"} =>
                       out.value = <<"https://via.placeholder.com/150">>

\* An audio file was uploaded with a placeholder stored as the key while the
\* storage would have accepted it: the call has returned the audio fallback
\* without posting anything.
C20_Witness ==
    /\ apiCall.op = "upload"
    /\ apiCall.storedKey # NULL /\ apiCall.storedKey.placeholder
    /\ apiCall.outcome = "ok"
    /\ apiCall.file.type[1] = "audio"
    /\ apiCall.out.asked = <<>>
    /\ apiCall.out.value = <<"https://actions.google.com/sounds/v1/ambiences/coffee_shop.ogg">>

\* A friend code that is a string of exactly five decimal digits.
FiveDigits(code) ==
    /\ Len(code) = 5
    /\ \A i \in 1..5 : code[i] \in {"0", "1", "2", "3", "4", "5", "6", "7", "8", "9"}

\* C21: whatever payload the user mapper is given (none, or one with any of
\* username, avatar and friend code missing, or with a friend code that is
\* not five digits), the User it produces has its required fields id,
\* username, email, avatarUrl, friendCode and status, and its friend code is
\* a string of exactly five decimal digits.
C21_MapperPopulates ==
    apiCall.op = "mapUser" =>
        /\ {"id", "username", "email", "avatarUrl", "friendCode", "status"}
              \subseteq DOMAIN apiCall.out
        /\ apiCall.out.id # "" /\ apiCall.out.username # "" /\ apiCall.out.status # ""
        /\ FiveDigits(apiCall.out.friendCode)

\* C22: for every seed that is not empty, generateFriendCode gives the same
\* value whenever it is called, the decimal text of an integer from 10000 to
\* 99999, also when the wrapped 32-bit hash is negative or is -2^31; and
\* mapUser gives a payload with an id and no friend code the same friend
\* code whenever it maps it.
C22_Derivation ==
    /\ apiCall.op = "generateFriendCode" /\ apiCall.seed # "" =>
          /\ \A draw \in Draws : GenerateFriendCode(apiCall.seed, draw) = apiCall.out
          /\ CodeOf(apiCall.seed) \in 10000..99999
          /\ apiCall.out = NumberToString(CodeOf(apiCall.seed))
          /\ FiveDigits(apiCall.out)
    /\ apiCall.op = "mapUser" /\ apiCall.kind \in {"idOnly", "numericId", "minHash", "negativeHash"} =>
          /\ \A random \in RandomTexts :
                MapUserWith(UserPayload(apiCall.kind), random).friendCode
                    = apiCall.out.friendCode
          /\ apiCall.out.friendCode = GenerateFriendCode(apiCall.out.id, 0)
          /\ FiveDigits(apiCall.out.friendCode)

\* The seed whose hash is -2^31 and a seed whose hash is negative have been
\* given codes, and the payload with the first as its id has been mapped.
C22_Witness ==
    \/ /\ apiCall.op = "generateFriendCode" /\ apiCall.seed = "GydZG_"
       /\ HashOf(Characters(apiCall.seed)) = <<32768, 0>>
       /\ apiCall.out = <<"9", "3", "6", "4", "8">>
    \/ /\ apiCall.op = "generateFriendCode" /\ apiCall.seed = "zzzzzz"
       /\ NumberOf(HashOf(Characters(apiCall.seed))).neg
       /\ apiCall.out = <<"8", "5", "6", "6", "4">>

-----------------------------------------------------------------------------
\* C23: when there is no session (currentUser is null, which only logout
\* brings back once a call has had a user), the completion of an
\* updateUserProfile call or of the chat-list load of a login that was made
\* in a session, and so was in flight when logout ran, leaves currentUser
\* null, chats empty and activeChatId null, whether the request succeeded or
\* not.
C23_LogoutNotUndone ==
    [][\A k \in 1..MaxCalls :
          (/\ currentUser = NULL /\ chats = <<>> /\ activeChatId = NULL
           /\ ProfileResolved(k) \/ ProfileRejected(k) \/ LoginListed(k))
          => currentUser' = NULL /\ chats' = <<>> /\ activeChatId' = NULL]_vars

-----------------------------------------------------------------------------
\* C24: once the remote send of a sendMessage call to a chat has succeeded and
\* its completion has been applied, the message the service confirmed is an
\* element of the chat's list in messages, also when the refresh of a
\* setActiveChat call for that chat was applied between the optimistic
\* append and that completion.
C24_SentMessageKept ==
    [][\A i \in 1..MaxCalls : SendResolved(i) =>
          \E p \in 1..Len(MessagesOf(messages', sendCalls'[i].chatId)) :
              MessagesOf(messages', sendCalls'[i].chatId)[p] = sendCalls'[i].savedMessage]_vars

-----------------------------------------------------------------------------
\* C25: for a chat whose id begins with local_, every confirmed message that
\* was in messages[chatId] when a setActiveChat call for the chat was made is
\* in messages[chatId] when the refresh of that call has been applied.
C25_LocalHistoryKept ==
    [][\A k \in 1..MaxCalls :
          (RefreshApplied(k) /\ IsLocal(activeCalls[k].chatId))
              => activeCalls[k].had
                    \subseteq ConfirmedIn(MessagesOf(messages', activeCalls[k].chatId))]_vars

-----------------------------------------------------------------------------
\* C26: a chat that a successful createChat has put in chats stays in chats
\* in every step that is not a logout; in particular the step that installs
\* the chat list of a login leaves it there.
C26_CreatedChatStays ==
    [][\A k \in 1..MaxCalls :
          (/\ k <= Len(createCalls) /\ createCalls[k].ret = "true"
           /\ createCalls[k].newChat.id \in ChatIdsIn(chats)
           /\ ~(currentUser' = NULL /\ authToken' = NULL /\ chats' = <<>>))
          => createCalls[k].newChat.id \in ChatIdsIn(chats')]_vars

-----------------------------------------------------------------------------
\* The sends made to a chat.
SendsTo(calls, c) == {i \in 1..Len(calls) : calls[i].chatId = c}

\* The entry of chats with the id.
ChatWith(cs, c) == cs[CHOOSE p \in 1..Len(cs) : cs[p].id = c]

\* C27: when the last of several sends to a chat of the chat list succeeds
\* (a chat of the service, whose sends wait for a request), all of them
\* having succeeded, no setActiveChat call having been made for the chat and
\* the chat's lastMessage being one a send gave it, the chat's lastMessage is
\* the last element of the chat's list in messages, in whatever order the
\* completions arrived.
C27_LastMessageIsLast ==
    [][\A i \in 1..MaxCalls : SendResolved(i) =>
          LET c == sendCalls[i].chatId
              list == MessagesOf(messages', c)
          IN (/\ ~IsLocal(c)
              /\ Cardinality(SendsTo(sendCalls', c)) >= 2
              /\ \A j \in SendsTo(sendCalls', c) : sendCalls'[j].pc = "resolved"
              /\ \A k \in 1..Len(activeCalls) : activeCalls[k].chatId # c
              /\ c \in ChatIdsIn(chats) /\ ChatWith(chats, c).lastMessage # NULL
              /\ chats' # <<>> /\ list # <<>>)
             => ChatWith(chats', c).lastMessage = list[Len(list)]]_vars

-----------------------------------------------------------------------------
\* C28: in the step that completes the second of two updateUserProfile calls
\* made one after the other in one session (the only profile calls, and no
\* logout since), the later one having succeeded, currentUser becomes the
\* user the service confirmed to the later call, whether the earlier call
\* succeeded or failed and whichever of the two completed first.
C28_LaterUpdateWins ==
    [][\A i, j \in 1..MaxCalls :
          (/\ i < j /\ j <= Len(profileCalls)
           /\ ProfileResolved(i) \/ ProfileRejected(i) \/ ProfileResolved(j)
           /\ profileCalls'[i].pc \in {"done", "threw"}
           /\ profileCalls'[j].pc = "done"
           /\ Len(profileCalls) = 2 /\ Len(loginCalls) + Len(signupCalls) = 1
           /\ authToken # NULL)
          => currentUser' = profileCalls'[j].updatedUser]_vars

-----------------------------------------------------------------------------
\* The optimistic entry of the i-th send is in the list of its chat.
TempIn(i) ==
    /\ i <= Len(sendCalls)
    /\ PositionsOf(MessagesOf(messages, sendCalls[i].chatId), sendCalls[i].tempId) # {}

\* No send is awaiting its request.
NoSendInFlight == \A i \in 1..Len(sendCalls) : sendCalls[i].pc # "awaiting"

\* The temporary ids among the ids of all messages.
TempIdsIn(ms) == {id \in IdsIn(ms) : id[1] = "msg"}

\* C29: every remote send being answered in the end, the optimistic entry of
\* every send is in the end replaced or removed, and whenever no send is in
\* flight no list in messages holds a message with a temporary id.
C29_NoneStaysPending ==
    /\ \A i \in 1..MaxCalls : TempIn(i) ~> ~TempIn(i)
    /\ [](NoSendInFlight => TempIdsIn(messages) = {})

\* Two sends have been made and have settled, one by a success and one by a
\* failure, and no temporary entry is left.
C29_Witness ==
    /\ \E i, j \in 1..Len(sendCalls) :
          sendCalls[i].pc = "resolved" /\ sendCalls[j].pc = "rejected"
    /\ NoSendInFlight
    /\ TempIdsIn(messages) = {}
    /\ \E c \in DOMAIN messages : messages[c] # <<>>

-----------------------------------------------------------------------------
\* C30: when setActiveChat is only ever called with the id of a chat that is
\* in chats at the time of the call, activeChatId is in every reachable state
\* null or the id of a chat that is in chats.
C30_ActiveChatListed == activeChatId = NULL \/ activeChatId \in ChatIdsIn(chats)

====
